---- MODULE Spec2Model ----
(***************************************************************************)
(* Asynchronous moderation pipeline of part5: the /async_predict producer, *)
(* the Kafka moderation worker (process_message with its recursive retry), *)
(* the /moderation_result read path, the /close flow, the PostgreSQL       *)
(* moderation_results table and the Redis prediction cache (Spec); the     *)
(* synchronous /predict and /simple_predict paths (SyncSpec); direct calls *)
(* of the Redis client (ClientSpec).                                       *)
(***************************************************************************)
EXTENDS Integers, Sequences, FiniteSets, TLC

(* ---------------------------- bounds ---------------------------------- *)
MaxItem == 1
MaxTasks == 1
MaxDlq == 1
MaxKeys == 2
MaxClock == 2
MaxElapse == 6

(* ------------------------ program constants --------------------------- *)
MAX_RETRIES == 3
RETRY_DELAY_SECONDS == 5

\* ads.id and moderation_results.id come from independent sequences
ItemIds == {10 + i : i \in 1..MaxItem}
TaskIds == 1..MaxTasks
Workers == {"w1"}

\* probabilities returned by model.predict_proba, in percent
Probs == {20, 90}
\* what one call of the scoring model does: raise, or return a probability
EngineOutcomes ==
    {[raised |-> TRUE, proba |-> 0]} \cup {[raised |-> FALSE, proba |-> x] : x \in Probs}

\* the key fields of a PredictRequest: images_qty is conint(ge=0, le=10)
FeatureVectors ==
    [is_verified_seller : BOOLEAN, images_qty : {1, 10},
     description : {"", "a", "b"}, category : {2, 12}]
\* the /predict requests that are sent: one vector, the vector with another
\* description of the same length, with a description of another length,
\* and with another category
BaseRequest ==
    [is_verified_seller |-> TRUE, images_qty |-> 1, description |-> "a", category |-> 2]
Requests ==
    << BaseRequest,
       [BaseRequest EXCEPT !.description = "b"],
       [BaseRequest EXCEPT !.description = ""],
       [BaseRequest EXCEPT !.category = 12] >>

\* Optional[...] values: None is the empty tuple, a value v is <<v>>
None == <<>>
Some(v) == <<v>>

\* keys, values and ttl arguments for direct calls of the RedisClient: a
\* dict, a string and a list as in TestRedisClientOperations, a tuple, and
\* an object that only default=str can encode
ClientKeys == 1..MaxKeys
ClientValues ==
    { <<"dict", [a |-> 1]>>, <<"str", "value">>, <<"list", <<2, 3>>>>,
      <<"tuple", <<2, 3>>>>, <<"object", "2024-01-01">> }
ClientTtls == {None, Some(0), Some(120)}

VARIABLES
    ads,        \* public.ads: existing ad id -> [is_closed]
    rows,       \* public.moderation_results: existing id -> row
    next_id,    \* BIGSERIAL sequence of moderation_results.id
    redis,      \* Redis: present key -> [payload, ex (seconds to live)]
    topic,      \* log of the "moderation" topic
    dlq,        \* log of the "moderation_dlq" topic
    inflight,   \* /async_predict requests between the INSERT and the publish
    wk,         \* per worker: the process_message activation
    resp,       \* last HTTP response (last client call in ClientSpec)
    now         \* the database clock read by NOW()

vars == <<ads, rows, next_id, redis, topic, dlq, inflight, wk, resp, now>>

(* ------------------------- repositories/ads --------------------------- *)
get_ad_by_id(a, ad_id) == IF ad_id \in DOMAIN a THEN Some(a[ad_id]) ELSE None

\* INNER JOIN users: ads.seller_id is NOT NULL REFERENCES users, so the
\* join row exists exactly when the ad exists; is_closed is not filtered
get_ad_with_seller(a, ad_id) == IF ad_id \in DOMAIN a THEN Some(ad_id) ELSE None

\* UPDATE ... SET is_closed = TRUE WHERE id = $1 AND is_closed = FALSE
close_ad_hits_mut(a, ad_id) == ad_id \in DOMAIN a
close_ad_hits(a, ad_id) == ad_id \in DOMAIN a /\ ~a[ad_id].is_closed
close_ad(a, ad_id) ==
    IF close_ad_hits(a, ad_id) THEN [a EXCEPT ![ad_id].is_closed = TRUE] ELSE a

(* ---------------------- repositories/moderation ----------------------- *)
Restrict(f, S) == [x \in S |-> f[x]]

create_moderation_request(r, id, item_id) ==
    [x \in DOMAIN r \cup {id} |->
        IF x = id
        THEN [item_id |-> item_id, status |-> "pending", is_violation |-> None,
              probability |-> None, error_message |-> None,
              processed_at |-> None]
        ELSE r[x]]

update_moderation_completed_keeps_time(r, moderation_id, is_violation, probability) ==
    IF moderation_id \in DOMAIN r
    THEN [r EXCEPT ![moderation_id].status = "completed",
                   ![moderation_id].is_violation = Some(is_violation),
                   ![moderation_id].probability = Some(probability)]
    ELSE r
update_moderation_completed(r, moderation_id, is_violation, probability) ==
    IF moderation_id \in DOMAIN r
    THEN [r EXCEPT ![moderation_id].status = "completed",
                   ![moderation_id].is_violation = Some(is_violation),
                   ![moderation_id].probability = Some(probability),
                   ![moderation_id].processed_at = Some(now)]
    ELSE r

update_moderation_failed(r, moderation_id, error_message) ==
    IF moderation_id \in DOMAIN r
    THEN [r EXCEPT ![moderation_id].status = "failed",
                   ![moderation_id].error_message = Some(error_message),
                   ![moderation_id].processed_at = Some(now)]
    ELSE r

get_moderation_by_id(r, moderation_id) ==
    IF moderation_id \in DOMAIN r THEN Some(r[moderation_id]) ELSE None

ids_of_item(r, item_id) == {t \in DOMAIN r : r[t].item_id = item_id}
delete_moderation_by_item(r, item_id) ==
    Restrict(r, DOMAIN r \ ids_of_item(r, item_id))

\* DELETE FROM ads; moderation_results.item_id REFERENCES ads ON DELETE CASCADE
delete_ad(a, ad_id) == Restrict(a, DOMAIN a \ {ad_id})

(* -------------------------- clients/postgres -------------------------- *)
\* get_pg_connection, on a count of open connections: asyncpg.connect when
\* the scope is entered, connection.close() when it is left by a return
pg_connect(n) == n + 1
pg_close(n) == n - 1

\* the connection of a scope that has been left: connection.close() stands
\* after the yield with no try/finally around it, so it runs when the body
\* returns and is skipped when the body raises
scope_left(by_exception) == IF by_exception THEN "open" ELSE "closed"

\* a return unwinds the recursion: every frame of process_message leaves
\* its own "async with" scope in turn
RECURSIVE unwind(_)
unwind(n) == IF n = 0 THEN 0 ELSE unwind(pg_close(n))

(* --------------------------- clients/redis ---------------------------- *)
DEFAULT_TTL_SECONDS == 300

\* A Python value is <<type, content>>. "tuple" and "object" are values json
\* has no form for: a tuple, and an object only default=str can encode
\* (content is its str()).
PyDict(d) == <<"dict", d>>

\* json.dumps(value, default=str): the text written to Redis
json_dumps(value) ==
    IF value[1] = "tuple" THEN <<"json", <<"list", value[2]>>>>
    ELSE IF value[1] = "object" THEN <<"json", <<"str", value[2]>>>>
    ELSE <<"json", value>>

\* a payload json.loads rejects (written by another client, or damaged)
Undecodable == <<"bytes", 0>>
json_loads_raises(raw) == raw[1] # "json"
json_loads(raw) == raw[2]

\* ex = ttl or self._default_ttl, ttl being None or Some(seconds)
expiry(ttl) == IF ttl = None \/ ttl = Some(0) THEN DEFAULT_TTL_SECONDS ELSE ttl[1]

\* RedisClient.get: None for a missing key, else json.loads of the payload;
\* redis_get_raises is the case in which json.loads raises out of get
redis_get_raises(s, key) == key \in DOMAIN s /\ json_loads_raises(s[key].payload)
redis_get(s, key) ==
    IF key \in DOMAIN s THEN Some(json_loads(s[key].payload)) ELSE None
\* a set that keeps the value of a key that exists (SET ... NX)
redis_set_nx(s, key, value, ttl) ==
    IF key \in DOMAIN s THEN s
    ELSE [k \in DOMAIN s \cup {key} |->
             IF k = key THEN [payload |-> json_dumps(value), ex |-> expiry(ttl)]
             ELSE s[k]]
redis_set(s, key, value, ttl) ==
    [k \in DOMAIN s \cup {key} |->
        IF k = key THEN [payload |-> json_dumps(value), ex |-> expiry(ttl)] ELSE s[k]]
redis_delete(s, key) == Restrict(s, DOMAIN s \ {key})
redis_exists(s, key) == key \in DOMAIN s

(* ----------------------- storages/predict_cache ----------------------- *)
PREDICT_BY_ITEM_TTL == 600
PREDICT_BY_FEATURES_TTL == 3600
MODERATION_RESULT_TTL == 1800

\* A key is the sequence of the pieces of its f-string: the literal prefix,
\* then the characters of each formatted field and the ":" between fields.
DigitChars == <<"0", "1", "2", "3", "4", "5", "6", "7", "8", "9">>
\* str(n) of a non-negative int, one character per element
RECURSIVE str_int(_)
str_int(n) ==
    IF n < 10 THEN <<DigitChars[n + 1]>>
    ELSE Append(str_int(n \div 10), DigitChars[(n % 10) + 1])
\* int(b) of a bool
int_bool(b) == IF b THEN 1 ELSE 0

_item_predict_key(item_id) == <<"predict:item:">> \o str_int(item_id)

\* a key built without the ":" separators between its fields
_features_predict_key_mut(is_verified_seller, images_qty, description_length, category) ==
    <<"predict:features:">> \o str_int(int_bool(is_verified_seller))
        \o str_int(images_qty) \o str_int(description_length) \o str_int(category)
_features_predict_key(is_verified_seller, images_qty, description_length, category) ==
    <<"predict:features:">> \o str_int(int_bool(is_verified_seller)) \o <<":">>
        \o str_int(images_qty) \o <<":">> \o str_int(description_length) \o <<":">>
        \o str_int(category)

_moderation_key_mut(task_id) == <<"predict:item:">> \o str_int(task_id)
_moderation_key(task_id) == <<"moderation:result:">> \o str_int(task_id)

\* CachedPrediction(**data)
CachedPrediction(data) == data[2]

get_by_item(s, item_id) ==
    LET data == redis_get(s, _item_predict_key(item_id))
    IN IF data = None THEN None ELSE Some(CachedPrediction(data[1]))

set_by_item_mut(s, item_id, is_valid, probability) ==
    redis_set(s, _item_predict_key(item_id),
              PyDict([is_valid |-> is_valid, probability |-> probability]),
              Some(PREDICT_BY_FEATURES_TTL))
set_by_item(s, item_id, is_valid, probability) ==
    redis_set(s, _item_predict_key(item_id),
              PyDict([is_valid |-> is_valid, probability |-> probability]),
              Some(PREDICT_BY_ITEM_TTL))

invalidate_by_item(s, item_id) == redis_delete(s, _item_predict_key(item_id))

\* the key is built from len(description), not from the description
get_by_features(s, is_verified_seller, images_qty, description, category) ==
    LET key == _features_predict_key(is_verified_seller, images_qty,
                                     Len(description), category)
        data == redis_get(s, key)
    IN IF data = None THEN None ELSE Some(CachedPrediction(data[1]))

set_by_features(s, is_valid, probability, is_verified_seller, images_qty, description, category) ==
    redis_set(s, _features_predict_key(is_verified_seller, images_qty,
                                       Len(description), category),
              PyDict([is_valid |-> is_valid, probability |-> probability]),
              Some(PREDICT_BY_FEATURES_TTL))

get_moderation(s, task_id) == redis_get(s, _moderation_key(task_id))

set_moderation_mut(s, task_id, status, is_violation, probability) ==
    redis_set(s, _moderation_key(task_id),
              PyDict([task_id |-> task_id, status |-> status,
                      is_violation |-> is_violation, probability |-> probability]),
              Some(MODERATION_RESULT_TTL))
set_moderation_completed_only(s, task_id, status, is_violation, probability) ==
    IF status # "completed" THEN s
    ELSE set_moderation_mut(s, task_id, status, is_violation, probability)
set_moderation(s, task_id, status, is_violation, probability) ==
    IF status = "pending"
    THEN s
    ELSE redis_set(s, _moderation_key(task_id),
                   PyDict([task_id |-> task_id, status |-> status,
                           is_violation |-> is_violation, probability |-> probability]),
                   Some(MODERATION_RESULT_TTL))

invalidate_moderation(s, task_id) == redis_delete(s, _moderation_key(task_id))

\* for task_id in deleted_task_ids: invalidate_moderation(task_id)
invalidate_all_mut(s, ids) == s
RECURSIVE invalidate_all(_, _)
invalidate_all(s, ids) ==
    IF ids = {} THEN s
    ELSE LET t == CHOOSE x \in ids : TRUE
         IN invalidate_all(invalidate_moderation(s, t), ids \ {t})

(* --------------------------- clients/kafka ---------------------------- *)
\* send_moderation_request: the message has no retry_count field
moderation_message_mut(item_id, task_id) == [task_id |-> item_id, item_id |-> task_id]
moderation_message(item_id, task_id) == [task_id |-> task_id, item_id |-> item_id]

dlq_message(original_message, error, retry_count) ==
    [original_message |-> original_message, error |-> error,
     retry_count |-> retry_count]

(* ----------------------- services/predict_service --------------------- *)
PredictionErrorMsg == "Prediction failed"
AdNotFoundMsg(item_id) == <<"Ad with id not found", item_id>>

\* predict_validity on one outcome of model.predict_proba
predict_validity(out) ==
    IF out.raised
    THEN [ok |-> FALSE, is_valid |-> FALSE, proba |-> 0]
    ELSE [ok |-> TRUE, is_valid |-> (out.proba >= 50), proba |-> out.proba]

(* ------------------------------- Init --------------------------------- *)
IdleMsg == [task_id |-> 0, item_id |-> 0]
\* pc and msg are the activation; calls (invocations of process_message),
\* scored and raised (calls of predict_validity, and those that raised),
\* verdict (what predict_validity returned) and sent (dead-letter messages
\* published) record what the activation has done since the message arrived;
\* conns is the number of PostgreSQL connections the activation holds open;
\* completed_marks and failed_marks count the calls of
\* update_moderation_completed and update_moderation_failed that returned,
\* item_sets and task_sets the calls of set_by_item and set_moderation that
\* returned, slept lists the delays of asyncio.sleep, and fault names the
\* call whose exception reached the "except Exception" of main ("none" if
\* no exception did), where it is logged
IdleWorker == [pc |-> "idle", msg |-> IdleMsg, calls |-> 0, scored |-> 0, raised |-> 0, verdict |-> None, sent |-> 0, conns |-> 0, completed_marks |-> 0, failed_marks |-> 0, item_sets |-> 0, task_sets |-> 0, slept |-> <<>>, fault |-> "none"]
NoResp == [op |-> "none", id |-> 0, code |-> 0, body |-> None, conn |-> "closed"]

Init ==
    /\ ads = [i \in ItemIds |-> [is_closed |-> FALSE]]
    /\ rows = <<>>
    /\ next_id = 1
    /\ redis = <<>>
    /\ topic = <<>>
    /\ dlq = <<>>
    /\ inflight = {}
    /\ wk = [w \in Workers |-> IdleWorker]
    /\ resp = NoResp
    /\ now = 0

(* ----------------------- routes/predict.py ---------------------------- *)
\* a response; conn is what has become of the connection of the handler's
\* get_pg_connection scope, if it entered one: the handlers raise their
\* HTTPException(404), and nothing else, inside the scope
Response(op, id, code, body) == [op |-> op, id |-> id, code |-> code, body |-> body, conn |-> scope_left(code = 404)]

\* faulty variants of async_predict: one without the get_ad_by_id check,
\* one that publishes the message before the row is inserted
async_predict_no_check(item_id) ==
    /\ next_id <= MaxTasks
    /\ rows' = create_moderation_request(rows, next_id, item_id)
    /\ next_id' = next_id + 1
    /\ inflight' = inflight \cup {moderation_message(item_id, next_id)}
    /\ UNCHANGED <<ads, redis, topic, dlq, wk, resp, now>>
async_predict_publish_first(item_id) ==
    IF get_ad_by_id(ads, item_id) = None
    THEN /\ resp' = Response("async_predict", item_id, 404, None)
         /\ UNCHANGED <<ads, rows, next_id, redis, topic, dlq, inflight, wk, now>>
    ELSE /\ next_id <= MaxTasks
         /\ topic' = Append(topic, moderation_message(item_id, next_id))
         /\ next_id' = next_id + 1
         /\ UNCHANGED <<ads, rows, redis, dlq, inflight, wk, resp, now>>
\* POST /async_predict, first half: the get_pg_connection scope (the
\* message there is what send_moderation_request will build; its timestamp
\* field is left out)
async_predict(item_id) ==
    IF get_ad_by_id(ads, item_id) = None
    THEN /\ resp' = Response("async_predict", item_id, 404, None)
         /\ UNCHANGED <<ads, rows, next_id, redis, topic, dlq, inflight, wk, now>>
    ELSE /\ next_id <= MaxTasks
         /\ rows' = create_moderation_request(rows, next_id, item_id)
         /\ next_id' = next_id + 1
         /\ inflight' = inflight \cup {moderation_message(item_id, next_id)}
         /\ UNCHANGED <<ads, redis, topic, dlq, wk, resp, now>>

\* POST /async_predict, second half: kafka_producer.send_moderation_request
\* and the response; sent = FALSE is send_and_wait (or the not-started
\* check) raising, which FastAPI turns into a 500
async_predict_publish(m, sent) ==
    /\ m \in inflight
    /\ inflight' = inflight \ {m}
    /\ IF sent
       THEN /\ topic' = Append(topic, m)
            /\ resp' = Response("async_predict", m.item_id, 200,
                                Some([task_id |-> m.task_id, status |-> "pending"]))
       ELSE /\ topic' = topic
            /\ resp' = Response("async_predict", m.item_id, 500, None)
    /\ UNCHANGED <<ads, rows, next_id, redis, dlq, wk, now>>

\* ModerationResultResponse(**cached)
ModerationResultResponse(cached) == cached[2]

\* PredictResponse(is_valid=..., probability=...)
PredictResponse(is_valid, probability) ==
    [is_valid |-> is_valid, probability |-> probability]

\* POST /predict with the n-th sample request; a PredictionError is answered
\* 500 by prediction_error_handler
predict_handler(n, up, out) ==
    LET req == Requests[n]
        key == _features_predict_key(req.is_verified_seller, req.images_qty,
                                     Len(req.description), req.category)
        cached == get_by_features(redis, req.is_verified_seller, req.images_qty,
                                  req.description, req.category)
        p == predict_validity(out)
    IN /\ IF ~up \/ redis_get_raises(redis, key)
          THEN /\ resp' = Response("predict", n, 500, None)
               /\ redis' = redis
          ELSE IF cached # None
          THEN /\ resp' = Response("predict", n, 200,
                                   Some(PredictResponse(cached[1].is_valid,
                                                        cached[1].probability)))
               /\ redis' = redis
          ELSE IF ~p.ok
          THEN /\ resp' = Response("predict", n, 500, None)
               /\ redis' = redis
          ELSE /\ redis' = set_by_features(redis, p.is_valid, p.proba,
                                           req.is_verified_seller, req.images_qty,
                                           req.description, req.category)
               /\ resp' = Response("predict", n, 200,
                                   Some(PredictResponse(p.is_valid, p.proba)))
       /\ UNCHANGED <<ads, rows, next_id, topic, dlq, inflight, wk, now>>

\* a /simple_predict that scores the listing without consulting the cache
simple_predict_no_cache_read(item_id, up, out) ==
    LET row == get_ad_with_seller(ads, item_id)
        p == predict_validity(out)
    IN /\ IF row = None
          THEN /\ resp' = Response("simple_predict", item_id, 404, None)
               /\ redis' = redis
          ELSE IF ~p.ok
          THEN /\ resp' = Response("simple_predict", item_id, 500, None)
               /\ redis' = redis
          ELSE /\ redis' = set_by_item(redis, item_id, p.is_valid, p.proba)
               /\ resp' = Response("simple_predict", item_id, 200,
                                   Some(PredictResponse(p.is_valid, p.proba)))
       /\ UNCHANGED <<ads, rows, next_id, topic, dlq, inflight, wk, now>>

\* POST /simple_predict
simple_predict(item_id, up, out) ==
    LET cached == get_by_item(redis, item_id)
        row == get_ad_with_seller(ads, item_id)
        p == predict_validity(out)
    IN /\ IF ~up \/ redis_get_raises(redis, _item_predict_key(item_id))
          THEN /\ resp' = Response("simple_predict", item_id, 500, None)
               /\ redis' = redis
          ELSE IF cached # None
          THEN /\ resp' = Response("simple_predict", item_id, 200,
                                   Some(PredictResponse(cached[1].is_valid,
                                                        cached[1].probability)))
               /\ redis' = redis
          ELSE IF row = None
          THEN /\ resp' = Response("simple_predict", item_id, 404, None)
               /\ redis' = redis
          ELSE IF ~p.ok
          THEN /\ resp' = Response("simple_predict", item_id, 500, None)
               /\ redis' = redis
          ELSE /\ redis' = set_by_item(redis, item_id, p.is_valid, p.proba)
               /\ resp' = Response("simple_predict", item_id, 200,
                                   Some(PredictResponse(p.is_valid, p.proba)))
       /\ UNCHANGED <<ads, rows, next_id, topic, dlq, inflight, wk, now>>

\* a lookup that goes to the table without consulting the cache
moderation_result_db_first(task_id, up) ==
    LET moderation == get_moderation_by_id(rows, task_id)
    IN /\ IF moderation = None
          THEN resp' = Response("moderation_result", task_id, 404, None)
          ELSE resp' = Response("moderation_result", task_id, 200,
                                Some([task_id |-> task_id,
                                      status |-> moderation[1].status,
                                      is_violation |-> moderation[1].is_violation,
                                      probability |-> moderation[1].probability]))
       /\ UNCHANGED <<ads, rows, next_id, redis, topic, dlq, inflight, wk, now>>

\* GET /moderation_result/{task_id}. up = FALSE is a request during which
\* Redis is unreachable: the first cache call raises out of the handler,
\* as it does when json.loads rejects the stored payload.
moderation_result(task_id, up) ==
    LET cached == get_moderation(redis, task_id)
        moderation == get_moderation_by_id(rows, task_id)
    IN /\ IF ~up \/ redis_get_raises(redis, _moderation_key(task_id))
          THEN /\ resp' = Response("moderation_result", task_id, 500, None)
               /\ redis' = redis
          ELSE IF cached # None
          THEN /\ resp' = Response("moderation_result", task_id, 200,
                                   Some(ModerationResultResponse(cached[1])))
               /\ redis' = redis
          ELSE IF moderation = None
          THEN /\ resp' = Response("moderation_result", task_id, 404, None)
               /\ redis' = redis
          ELSE /\ redis' = set_moderation(redis, task_id, moderation[1].status,
                                          moderation[1].is_violation,
                                          moderation[1].probability)
               /\ resp' = Response("moderation_result", task_id, 200,
                                   Some([task_id |-> task_id,
                                         status |-> moderation[1].status,
                                         is_violation |-> moderation[1].is_violation,
                                         probability |-> moderation[1].probability]))
       /\ UNCHANGED <<ads, rows, next_id, topic, dlq, inflight, wk, now>>

\* POST /close. The invalidations run after the connection scope, so with
\* Redis unreachable the ad is closed and its rows are deleted before
\* invalidate_by_item raises.
close_ad_handler(item_id, up) ==
    /\ IF ~close_ad_hits(ads, item_id)
       THEN /\ resp' = Response("close", item_id, 404, None)
            /\ UNCHANGED <<ads, rows, redis>>
       ELSE LET deleted_task_ids == ids_of_item(rows, item_id)
            IN /\ ads' = close_ad(ads, item_id)
               /\ rows' = delete_moderation_by_item(rows, item_id)
               /\ IF ~up
                  THEN /\ redis' = redis
                       /\ resp' = Response("close", item_id, 500, None)
                  ELSE /\ redis' = invalidate_all(invalidate_by_item(redis, item_id),
                                                  deleted_task_ids)
                       /\ resp' = Response("close", item_id, 200, None)
    /\ UNCHANGED <<next_id, topic, dlq, inflight, wk, now>>

\* the listing is removed by its owner (delete_ad, or delete_user cascading
\* to ads); the foreign key cascades to moderation_results
DeleteAd(item_id) ==
    /\ item_id \in DOMAIN ads
    /\ ads' = delete_ad(ads, item_id)
    /\ rows' = delete_moderation_by_item(rows, item_id)
    /\ UNCHANGED <<next_id, redis, topic, dlq, inflight, wk, resp, now>>

(* -------------------- workers/moderation_worker.py -------------------- *)
\* message_value.get("retry_count", 0)
get_retry_count(m) == IF "retry_count" \in DOMAIN m THEN m.retry_count ELSE 0
\* message_value["retry_count"] = n
set_retry_count_mut(m, n) == [f \in DOMAIN m \cup {"retry_count"} |-> IF f = "retry_count" THEN n + 1 ELSE m[f]]
set_retry_count(m, n) ==
    [f \in DOMAIN m \cup {"retry_count"} |-> IF f = "retry_count" THEN n ELSE m[f]]

\* async for msg in consumer: a worker that is not inside process_message
\* receives a message of the topic; at-least-once delivery may hand out any
\* message of the log again (the model stops delivering once the
\* dead-letter log holds MaxDlq messages)
Consume_pipelined(w, i) ==
    /\ Len(dlq) < MaxDlq
    /\ i \in 1..Len(topic)
    /\ wk' = [wk EXCEPT ![w] = [IdleWorker EXCEPT !.pc = "run", !.msg = topic[i]]]
    /\ UNCHANGED <<ads, rows, next_id, redis, topic, dlq, inflight, resp, now>>
Consume(w, i) ==
    /\ wk[w].pc \in {"idle", "done"}
    /\ Len(dlq) < MaxDlq
    /\ i \in 1..Len(topic)
    /\ wk' = [wk EXCEPT ![w] = [IdleWorker EXCEPT !.pc = "run", !.msg = topic[i]]]
    /\ UNCHANGED <<ads, rows, next_id, redis, topic, dlq, inflight, resp, now>>

\* send_to_dlq(retry_count=retry_count + 1) of the ad-not-found branch
not_found_retry_count_mut(retry_count) == retry_count
not_found_retry_count(retry_count) == retry_count + 1
\* next_retry = retry_count + 1
next_retry_of_stuck(retry_count) == retry_count
next_retry_of(retry_count) == retry_count + 1
\* if next_retry < MAX_RETRIES
should_retry_mut(next_retry) == next_retry <= MAX_RETRIES
should_retry(next_retry) == next_retry < MAX_RETRIES
\* delay = RETRY_DELAY_SECONDS * (2 ** retry_count)
backoff_delay_mut(retry_count) == RETRY_DELAY_SECONDS * (2 ^ next_retry_of(retry_count))
backoff_delay(retry_count) == RETRY_DELAY_SECONDS * (2 ^ retry_count)
\* is_violation = not is_valid
is_violation_of_mut(is_valid) == is_valid
is_violation_of(is_valid) == ~is_valid

\* one invocation of process_message, up to its return or its sleep; out
\* is what the scoring model does if it is called. The sleep and the
\* recursive call are inside the "async with", so the connection opened by
\* this invocation stays open across them.
process_message(w, out) ==
    LET message_value == wk[w].msg
        task_id == message_value.task_id
        item_id == message_value.item_id
        retry_count == get_retry_count(message_value)
        row == get_ad_with_seller(ads, item_id)
        p == predict_validity(out)
        next_retry == next_retry_of(retry_count)
        is_violation == is_violation_of(p.is_valid)
        opened == pg_connect(wk[w].conns)
    IN
    /\ wk[w].pc = "run"
    /\ IF row = None
       THEN /\ rows' = update_moderation_failed(rows, task_id, AdNotFoundMsg(item_id))
            /\ dlq' = Append(dlq, dlq_message(message_value, AdNotFoundMsg(item_id),
                                              not_found_retry_count(retry_count)))
            /\ wk' = [wk EXCEPT ![w].pc = "done", ![w].calls = @ + 1,
                                ![w].sent = @ + 1, ![w].failed_marks = @ + 1,
                                ![w].conns = unwind(opened)]
            /\ redis' = redis
       ELSE IF ~p.ok
       THEN IF should_retry(next_retry)
            THEN /\ wk' = [wk EXCEPT ![w].pc = "sleep", ![w].calls = @ + 1,
                                     ![w].scored = @ + 1, ![w].raised = @ + 1,
                                     ![w].slept = Append(@, backoff_delay(retry_count)),
                                     ![w].conns = opened]
                 /\ UNCHANGED <<rows, dlq, redis>>
            ELSE /\ rows' = update_moderation_failed(rows, task_id, PredictionErrorMsg)
                 /\ dlq' = Append(dlq, dlq_message(message_value, PredictionErrorMsg,
                                                   next_retry))
                 /\ wk' = [wk EXCEPT ![w].pc = "done", ![w].calls = @ + 1,
                                     ![w].scored = @ + 1, ![w].raised = @ + 1,
                                     ![w].sent = @ + 1, ![w].failed_marks = @ + 1,
                                     ![w].conns = unwind(opened)]
                 /\ redis' = redis
       ELSE /\ rows' = update_moderation_completed(rows, task_id, is_violation, p.proba)
            /\ redis' = set_moderation(
                            set_by_item(redis, item_id, p.is_valid, p.proba),
                            task_id, "completed", Some(is_violation), Some(p.proba))
            /\ wk' = [wk EXCEPT ![w].pc = "done", ![w].calls = @ + 1,
                                ![w].scored = @ + 1,
                                ![w].completed_marks = @ + 1,
                                ![w].item_sets = @ + 1, ![w].task_sets = @ + 1,
                                ![w].conns = unwind(opened),
                                ![w].verdict = Some([is_valid |-> p.is_valid,
                                                     probability |-> p.proba])]
            /\ dlq' = dlq
    /\ UNCHANGED <<ads, next_id, topic, inflight, resp, now>>

\* asyncio.sleep(delay) returns; the retry re-enters process_message with
\* the incremented retry_count written into the same message dict, from
\* inside the caller's connection scope
Wake(w) ==
    /\ wk[w].pc = "sleep"
    /\ wk' = [wk EXCEPT ![w].pc = "run",
                        ![w].msg = set_retry_count(@, get_retry_count(@) + 1)]
    /\ UNCHANGED <<ads, rows, next_id, redis, topic, dlq, inflight, resp, now>>

(* ------------------------------- Next --------------------------------- *)
Next ==
    \/ \E item_id \in ItemIds : async_predict(item_id)
    \/ \E m \in inflight, sent \in BOOLEAN : async_predict_publish(m, sent)
    \/ \E task_id \in TaskIds, up \in BOOLEAN : moderation_result(task_id, up)
    \/ \E item_id \in ItemIds, up \in BOOLEAN : close_ad_handler(item_id, up)
    \/ \E item_id \in ItemIds : DeleteAd(item_id)
    \/ \E w \in Workers, i \in 1..MaxTasks : Consume(w, i)
    \/ \E w \in Workers, out \in EngineOutcomes : process_message(w, out)
    \/ \E w \in Workers : Wake(w)

Spec == Init /\ [][Next]_vars

(* ------------------ direct calls of clients/redis.py ------------------ *)
\* the key "k{n}" of the n-th client key
ClientKey(n) == <<"k">> \o str_int(n)
\* the outcome of the last call: it returned value, or it raised
Returned(op, n, value) == [op |-> op, id |-> n, code |-> 0, body |-> value, conn |-> "closed"]
Raised(op, n) == [op |-> op, id |-> n, code |-> 1, body |-> None, conn |-> "closed"]

client_set(n, value, ttl) ==
    /\ redis' = redis_set(redis, ClientKey(n), value, ttl)
    /\ resp' = Returned("set", n, Some(value))
    /\ UNCHANGED <<ads, rows, next_id, topic, dlq, inflight, wk, now>>

client_get(n) ==
    /\ IF redis_get_raises(redis, ClientKey(n))
       THEN resp' = Raised("get", n)
       ELSE resp' = Returned("get", n, redis_get(redis, ClientKey(n)))
    /\ UNCHANGED <<ads, rows, next_id, redis, topic, dlq, inflight, wk, now>>

client_delete(n) ==
    /\ redis' = redis_delete(redis, ClientKey(n))
    /\ resp' = Returned("delete", n, None)
    /\ UNCHANGED <<ads, rows, next_id, topic, dlq, inflight, wk, now>>

client_exists(n) ==
    /\ resp' = Returned("exists", n, Some(<<"bool", redis_exists(redis, ClientKey(n))>>))
    /\ UNCHANGED <<ads, rows, next_id, redis, topic, dlq, inflight, wk, now>>

\* the payload of a stored key is overwritten by a writer other than
\* RedisClient.set, or damaged, with something that is not JSON
Damage(n) ==
    /\ redis_exists(redis, ClientKey(n))
    /\ redis' = [redis EXCEPT ![ClientKey(n)].payload = Undecodable]
    /\ resp' = Returned("damage", n, None)
    /\ UNCHANGED <<ads, rows, next_id, topic, dlq, inflight, wk, now>>

ClientNext ==
    \/ \E n \in ClientKeys, value \in ClientValues, ttl \in ClientTtls :
            client_set(n, value, ttl)
    \/ \E n \in ClientKeys : client_get(n)
    \/ \E n \in ClientKeys : client_delete(n)
    \/ \E n \in ClientKeys : client_exists(n)
    \/ \E n \in ClientKeys : Damage(n)

ClientSpec == Init /\ [][ClientNext]_vars

\* the synchronous verdict paths next to the closure and the removal of
\* listings: they share the listings and Redis with the pipeline
SyncNext ==
    \/ \E item_id \in ItemIds, up \in BOOLEAN, out \in EngineOutcomes :
            simple_predict(item_id, up, out)
    \/ \E n \in DOMAIN Requests, up \in BOOLEAN, out \in EngineOutcomes :
            predict_handler(n, up, out)
    \/ \E item_id \in ItemIds, up \in BOOLEAN : close_ad_handler(item_id, up)
    \/ \E item_id \in ItemIds : DeleteAd(item_id)

SyncSpec == Init /\ [][SyncNext]_vars

(* ------------- process_message step by step, calls failing ------------ *)
\* an exception leaves process_message: it passes through every frame (the
\* recursive call stands in the except handler, in no try of its own) and
\* reaches the "except Exception" of main, which logs it; no frame closes
\* its connection on the way
escape(a, what) == [a EXCEPT !.pc = "done", !.fault = what]

\* update_moderation_failed, then send_to_dlq, then return: the two
\* failure branches of process_message; a is the activation at that point,
\* db_ok and dlq_ok say whether the UPDATE and the publish return
fail_task_caching(w, a, error_msg, retry_count, db_ok, dlq_ok) ==
    /\ rows' = update_moderation_failed(rows, a.msg.task_id, error_msg)
    /\ dlq' = Append(dlq, dlq_message(a.msg, error_msg, retry_count))
    /\ redis' = set_moderation(redis, a.msg.task_id, "failed", None, None)
    /\ wk' = [wk EXCEPT ![w] = [a EXCEPT !.pc = "done", !.failed_marks = @ + 1, !.sent = @ + 1, !.task_sets = @ + 1, !.conns = unwind(@)]]
fail_task_retrying(w, a, error_msg, retry_count, db_ok, dlq_ok) ==
    /\ IF ~db_ok \/ ~dlq_ok
       THEN /\ wk' = [wk EXCEPT ![w] = [a EXCEPT !.pc = "run", !.fault = "send_to_dlq"]]
            /\ UNCHANGED <<rows, dlq>>
       ELSE /\ rows' = update_moderation_failed(rows, a.msg.task_id, error_msg)
            /\ dlq' = Append(dlq, dlq_message(a.msg, error_msg, retry_count))
            /\ wk' = [wk EXCEPT ![w] = [a EXCEPT !.pc = "done", !.failed_marks = @ + 1, !.sent = @ + 1, !.conns = unwind(@)]]
    /\ redis' = redis
fail_task(w, a, error_msg, retry_count, db_ok, dlq_ok) ==
    /\ IF ~db_ok
       THEN /\ wk' = [wk EXCEPT ![w] = escape(a, "update_moderation_failed")]
            /\ UNCHANGED <<rows, dlq>>
       ELSE /\ rows' = update_moderation_failed(rows, a.msg.task_id, error_msg)
            /\ IF ~dlq_ok
               THEN /\ wk' = [wk EXCEPT ![w] = escape([a EXCEPT !.failed_marks = @ + 1], "send_to_dlq")]
                    /\ dlq' = dlq
               ELSE /\ dlq' = Append(dlq, dlq_message(a.msg, error_msg, retry_count))
                    /\ wk' = [wk EXCEPT ![w] = [a EXCEPT !.pc = "done", !.failed_marks = @ + 1, !.sent = @ + 1, !.conns = unwind(@)]]
    /\ redis' = redis

\* one invocation of process_message inside its "async with": the fetch,
\* the scoring and the branch taken, up to the return, the sleep, or the
\* end of the connection scope after update_moderation_completed
process_message_attempt(w, out, db_ok, dlq_ok) ==
    LET message_value == wk[w].msg
        task_id == message_value.task_id
        item_id == message_value.item_id
        retry_count == get_retry_count(message_value)
        row == get_ad_with_seller(ads, item_id)
        p == predict_validity(out)
        next_retry == next_retry_of(retry_count)
        is_violation == is_violation_of(p.is_valid)
        entered == [wk[w] EXCEPT !.calls = @ + 1, !.conns = pg_connect(@)]
        scored == [entered EXCEPT !.scored = @ + 1]
        failed == [scored EXCEPT !.raised = @ + 1]
    IN
    /\ wk[w].pc = "run"
    /\ IF row = None
       THEN fail_task(w, entered, AdNotFoundMsg(item_id), not_found_retry_count(retry_count), db_ok, dlq_ok)
       ELSE IF ~p.ok
       THEN IF should_retry(next_retry)
            THEN /\ wk' = [wk EXCEPT ![w] = [failed EXCEPT !.pc = "sleep", !.slept = Append(@, backoff_delay(retry_count))]]
                 /\ UNCHANGED <<rows, dlq, redis>>
            ELSE fail_task(w, failed, PredictionErrorMsg, next_retry, db_ok, dlq_ok)
       ELSE IF ~db_ok
       THEN /\ wk' = [wk EXCEPT ![w] = escape(scored, "update_moderation_completed")]
            /\ UNCHANGED <<rows, dlq, redis>>
       ELSE /\ rows' = update_moderation_completed(rows, task_id, is_violation, p.proba)
            /\ wk' = [wk EXCEPT ![w] = [scored EXCEPT !.pc = "set_by_item", !.completed_marks = @ + 1, !.conns = pg_close(@), !.verdict = Some([is_valid |-> p.is_valid, probability |-> p.proba])]]
            /\ UNCHANGED <<dlq, redis>>
    /\ UNCHANGED <<ads, next_id, topic, inflight, resp, now>>

\* await predict_cache.set_by_item(item_id, is_valid, proba), after the
\* connection scope; ok = FALSE is the call raising
process_message_set_by_item(w, ok) ==
    /\ wk[w].pc = "set_by_item"
    /\ IF ok
       THEN /\ redis' = set_by_item(redis, wk[w].msg.item_id, wk[w].verdict[1].is_valid, wk[w].verdict[1].probability)
            /\ wk' = [wk EXCEPT ![w].pc = "set_moderation", ![w].item_sets = @ + 1]
       ELSE /\ redis' = redis
            /\ wk' = [wk EXCEPT ![w] = escape(@, "set_by_item")]
    /\ UNCHANGED <<ads, rows, next_id, topic, dlq, inflight, resp, now>>

\* await predict_cache.set_moderation(task_id, status="completed", ...),
\* then the return through every frame
process_message_set_moderation_skipped(w, ok) ==
    /\ wk[w].pc = "set_moderation"
    /\ wk' = [wk EXCEPT ![w].pc = "done", ![w].conns = unwind(@)]
    /\ UNCHANGED <<ads, rows, next_id, redis, topic, dlq, inflight, resp, now>>
process_message_set_moderation(w, ok) ==
    /\ wk[w].pc = "set_moderation"
    /\ IF ok
       THEN /\ redis' = set_moderation(redis, wk[w].msg.task_id, "completed", Some(is_violation_of(wk[w].verdict[1].is_valid)), Some(wk[w].verdict[1].probability))
            /\ wk' = [wk EXCEPT ![w].pc = "done", ![w].task_sets = @ + 1, ![w].conns = unwind(@)]
       ELSE /\ redis' = redis
            /\ wk' = [wk EXCEPT ![w] = escape(@, "set_moderation")]
    /\ UNCHANGED <<ads, rows, next_id, topic, dlq, inflight, resp, now>>

\* one worker instance whose calls of PostgreSQL, Kafka and Redis may raise
WorkerNext ==
    \/ \E item_id \in ItemIds : async_predict(item_id)
    \/ \E m \in inflight : async_predict_publish(m, TRUE)
    \/ \E item_id \in ItemIds : DeleteAd(item_id)
    \/ \E w \in Workers, i \in 1..MaxTasks : Consume(w, i)
    \/ \E w \in Workers, out \in EngineOutcomes, db_ok \in BOOLEAN, dlq_ok \in BOOLEAN : process_message_attempt(w, out, db_ok, dlq_ok)
    \/ \E w \in Workers, ok \in BOOLEAN : process_message_set_by_item(w, ok)
    \/ \E w \in Workers, ok \in BOOLEAN : process_message_set_moderation(w, ok)
    \/ \E w \in Workers : Wake(w)

WorkerSpec == Init /\ [][WorkerNext]_vars

\* two worker instances of one consumer group, every call returning
Instances == {"w1", "w2"}
ConcInit ==
    /\ ads = [i \in ItemIds |-> [is_closed |-> FALSE]]
    /\ rows = <<>>
    /\ next_id = 1
    /\ redis = <<>>
    /\ topic = <<>>
    /\ dlq = <<>>
    /\ inflight = {}
    /\ wk = [w \in Instances |-> IdleWorker]
    /\ resp = NoResp
    /\ now = 0

ConcNext ==
    \/ \E item_id \in ItemIds : async_predict(item_id)
    \/ \E m \in inflight : async_predict_publish(m, TRUE)
    \/ \E w \in Instances, i \in 1..MaxTasks : Consume(w, i)
    \/ \E w \in Instances, out \in EngineOutcomes : process_message_attempt(w, out, TRUE, TRUE)
    \/ \E w \in Instances : process_message_set_by_item(w, TRUE)
    \/ \E w \in Instances : process_message_set_moderation(w, TRUE)
    \/ \E w \in Instances : Wake(w)

ConcSpec == ConcInit /\ [][ConcNext]_vars


(* ------------------ messages that carry a retry_count ----------------- *)
\* the retry counts a message of the topic may arrive with: the field is
\* absent, or 0, 1 or 2
RetryCounts == {None, Some(0), Some(1), Some(2)}
with_retry_count(m, r) == IF r = None THEN m ELSE set_retry_count(m, r[1])

\* async for msg in consumer, the message being one of the topic as written
\* by send_moderation_request or one for the same task that carries a
\* retry_count
Deliver(w, i, r) ==
    /\ wk[w].pc \in {"idle", "done"}
    /\ Len(dlq) < MaxDlq
    /\ i \in 1..Len(topic)
    /\ wk' = [wk EXCEPT ![w] = [IdleWorker EXCEPT !.pc = "run", !.msg = with_retry_count(topic[i], r)]]
    /\ UNCHANGED <<ads, rows, next_id, redis, topic, dlq, inflight, resp, now>>

TermNext ==
    \/ \E item_id \in ItemIds : async_predict(item_id)
    \/ \E m \in inflight : async_predict_publish(m, TRUE)
    \/ \E item_id \in ItemIds : DeleteAd(item_id)
    \/ \E w \in Workers, i \in 1..MaxTasks, r \in RetryCounts : Deliver(w, i, r)
    \/ \E w \in Workers, out \in EngineOutcomes : process_message(w, out)
    \/ \E w \in Workers : Wake(w)

\* the event loop runs a worker that can run: an invocation of
\* process_message that has been entered is carried out, and
\* asyncio.sleep returns
TermSpec ==
    /\ Init /\ [][TermNext]_vars
    /\ \A w \in Workers : WF_vars(\E out \in EngineOutcomes : process_message(w, out))
    /\ \A w \in Workers : WF_vars(Wake(w))

(* ---------------- the pipeline without closure or removal ------------- *)
\* enqueues, one worker instance (redeliveries included) and result
\* lookups; no listing is closed or removed, and Redis and PostgreSQL
\* answer every call
PipelineNext ==
    \/ \E item_id \in ItemIds : async_predict(item_id)
    \/ \E m \in inflight : async_predict_publish(m, TRUE)
    \/ \E task_id \in TaskIds : moderation_result(task_id, TRUE)
    \/ \E w \in Workers, i \in 1..MaxTasks : Consume(w, i)
    \/ \E w \in Workers, out \in EngineOutcomes : process_message_attempt(w, out, TRUE, TRUE)
    \/ \E w \in Workers : process_message_set_by_item(w, TRUE)
    \/ \E w \in Workers : process_message_set_moderation(w, TRUE)
    \/ \E w \in Workers : Wake(w)

PipelineSpec == Init /\ [][PipelineNext]_vars

\* the pipeline next to the closure of listings
ClosureNext ==
    \/ \E item_id \in ItemIds : async_predict(item_id)
    \/ \E m \in inflight : async_predict_publish(m, TRUE)
    \/ \E task_id \in TaskIds : moderation_result(task_id, TRUE)
    \/ \E item_id \in ItemIds : close_ad_handler(item_id, TRUE)
    \/ \E w \in Workers, i \in 1..MaxTasks : Consume(w, i)
    \/ \E w \in Workers, out \in EngineOutcomes : process_message_attempt(w, out, TRUE, TRUE)
    \/ \E w \in Workers : process_message_set_by_item(w, TRUE)
    \/ \E w \in Workers : process_message_set_moderation(w, TRUE)
    \/ \E w \in Workers : Wake(w)

ClosureSpec == Init /\ [][ClosureNext]_vars

(* --------------------------- worker shutdown -------------------------- *)
\* the worker process is told to stop: asyncio.run cancels main, the
\* CancelledError is raised at the await the worker is suspended in (the
\* consumer's next message, the backoff sleep, a call of PostgreSQL, Kafka
\* or Redis), passes "except Exception" (it is a BaseException) and runs
\* the finally block of main, which stops the consumer, the producer and
\* the Redis client; the activation stays as the cancellation found it
Shutdown(w) ==
    /\ wk[w].pc # "stopped"
    /\ wk' = [wk EXCEPT ![w].pc = "stopped"]
    /\ UNCHANGED <<ads, rows, next_id, redis, topic, dlq, inflight, resp, now>>

ShutdownNext ==
    \/ \E item_id \in ItemIds : async_predict(item_id)
    \/ \E m \in inflight : async_predict_publish(m, TRUE)
    \/ \E w \in Workers, i \in 1..MaxTasks : Consume(w, i)
    \/ \E w \in Workers, out \in EngineOutcomes : process_message_attempt(w, out, TRUE, TRUE)
    \/ \E w \in Workers : process_message_set_by_item(w, TRUE)
    \/ \E w \in Workers : process_message_set_moderation(w, TRUE)
    \/ \E w \in Workers : Wake(w)
    \/ \E w \in Workers : Shutdown(w)

ShutdownSpec == Init /\ [][ShutdownNext]_vars

(* ------------- direct calls of repositories/moderation.py ------------- *)
\* the arguments of the last repository call, and when it was made
Completion(is_violation, probability) == Some([is_violation |-> is_violation, probability |-> probability, at |-> now])

store_create(item_id) ==
    /\ next_id <= MaxTasks
    /\ get_ad_by_id(ads, item_id) # None
    /\ rows' = create_moderation_request(rows, next_id, item_id)
    /\ next_id' = next_id + 1
    /\ resp' = Returned("create_moderation_request", next_id, None)
    /\ UNCHANGED <<ads, redis, topic, dlq, inflight, wk, now>>

store_complete(moderation_id, is_violation, probability) ==
    /\ rows' = update_moderation_completed(rows, moderation_id, is_violation, probability)
    /\ resp' = Returned("update_moderation_completed", moderation_id, Completion(is_violation, probability))
    /\ UNCHANGED <<ads, next_id, redis, topic, dlq, inflight, wk, now>>

store_fail(moderation_id) ==
    /\ rows' = update_moderation_failed(rows, moderation_id, PredictionErrorMsg)
    /\ resp' = Returned("update_moderation_failed", moderation_id, None)
    /\ UNCHANGED <<ads, next_id, redis, topic, dlq, inflight, wk, now>>

\* time passes between two statements
Tick ==
    /\ now < MaxClock
    /\ now' = now + 1
    /\ UNCHANGED <<ads, rows, next_id, redis, topic, dlq, inflight, wk, resp>>

StoreNext ==
    \/ \E item_id \in ItemIds : store_create(item_id)
    \/ \E t \in TaskIds, v \in BOOLEAN, p \in Probs : store_complete(t, v, p)
    \/ \E t \in TaskIds : store_fail(t)
    \/ Tick

StoreSpec == Init /\ [][StoreNext]_vars

TypeOK ==
    /\ DOMAIN ads \subseteq ItemIds
    /\ DOMAIN rows \subseteq TaskIds
    /\ next_id \in 1..(MaxTasks + 1)
    /\ Len(topic) <= MaxTasks
    /\ Len(dlq) <= MaxDlq

(* ============================== claims ================================ *)
Terminal == {"completed", "failed"}
Kept == DOMAIN rows \cap DOMAIN rows'

\* the activation of w returns in this step
Returns(w) == wk[w].pc = "run" /\ wk'[w].pc = "done"
\* w receives a message in this step
Receives(w) == wk[w].pc \in {"idle", "done"} /\ wk'[w].pc = "run"
\* exactly one message is appended to the dead-letter topic in this step
DlqAppended == Len(dlq') = Len(dlq) + 1 /\ SubSeq(dlq', 1, Len(dlq)) = dlq
NewDlq == dlq'[Len(dlq')]

\* C1: a ModerationTask row whose status is completed or failed keeps that
\* status in every later step, whatever messages the worker processes
\* (redelivered ones included).
C1_TerminalNeverChanges ==
    [][\A t \in Kept : rows[t].status \in Terminal => rows'[t].status = rows[t].status]_vars

\* C2: when the worker processes a message for a task whose row is
\* already completed, the row's status, is_violation and probability are
\* the same after the processing step as before it.
C2_ReprocessCompletedIdempotent ==
    [][\A w \in Workers :
          LET t == wk[w].msg.task_id
          IN (wk[w].pc = "run" /\ t \in Kept /\ rows[t].status = "completed")
             => /\ rows'[t].status = rows[t].status
                /\ rows'[t].is_violation = rows[t].is_violation
                /\ rows'[t].probability = rows[t].probability]_vars

\* C3: in every row, is_violation and probability are populated only when
\* the status is completed, error_message only when it is failed, and the
\* verdict columns and error_message are never populated together.
C3_VerdictAndErrorExclusive ==
    \A t \in DOMAIN rows :
        /\ (rows[t].is_violation # None \/ rows[t].probability # None)
              => rows[t].status = "completed"
        /\ rows[t].error_message # None => rows[t].status = "failed"
        /\ ~(rows[t].is_violation # None /\ rows[t].error_message # None)

\* ids the Result Store has handed out: the rows created so far
Created == 1..(next_id - 1)
TaskOf(w) == wk[w].msg.task_id
ItemOf(w) == wk[w].msg.item_id

\* C4: when the listing exists and predict_validity raises on every
\* attempt, the processing of a message that arrived with retry count 0
\* returns after exactly 3 scoring attempts, having published exactly one
\* dead-letter message, with retry_count 3 and the engine's error, and
\* having marked the task's row failed with that error.
C4_ThreeAttemptsThenDlq ==
    [][\A w \in Workers :
          (/\ Returns(w)
           /\ get_ad_with_seller(ads, ItemOf(w)) # None
           /\ wk'[w].raised = wk'[w].scored
           /\ wk'[w].calls = get_retry_count(wk[w].msg) + 1)
          => /\ wk'[w].scored = 3
             /\ wk'[w].calls = 3
             /\ wk'[w].sent = 1
             /\ DlqAppended
             /\ NewDlq.retry_count = 3
             /\ NewDlq.error = PredictionErrorMsg
             /\ NewDlq.original_message.task_id = TaskOf(w)
             /\ TaskOf(w) \in DOMAIN rows
                   => /\ TaskOf(w) \in DOMAIN rows'
                      /\ rows'[TaskOf(w)].status = "failed"
                      /\ rows'[TaskOf(w)].error_message = Some(PredictionErrorMsg)]_vars

C4_Witness ==
    \E w \in Workers :
        /\ wk[w].pc = "done" /\ wk[w].scored = 3 /\ wk[w].raised = 3 /\ wk[w].sent = 1
        /\ ItemOf(w) \in DOMAIN ads
        /\ TaskOf(w) \in DOMAIN rows
        /\ rows[TaskOf(w)].status = "failed"
        /\ rows[TaskOf(w)].error_message = Some(PredictionErrorMsg)
        /\ Len(dlq) >= 1 /\ dlq[Len(dlq)].retry_count = 3

\* what the worker does when the listing is absent at the first fetch,
\* apart from the Result Store: one invocation, no scoring call, one
\* dead-letter message with retry_count 1
PermanentFailureEffects(w) ==
    /\ wk'[w].calls = 1
    /\ wk'[w].scored = 0
    /\ wk'[w].sent = 1
    /\ DlqAppended
    /\ NewDlq.retry_count = 1
    /\ NewDlq.error = AdNotFoundMsg(ItemOf(w))
    /\ NewDlq.original_message.task_id = TaskOf(w)
AbsentAtFirstFetch(w) ==
    /\ Returns(w)
    /\ get_ad_with_seller(ads, ItemOf(w)) = None
    /\ get_retry_count(wk[w].msg) = 0

C6_FirstAttemptSuccess ==
    [][\A w \in Workers :
          (Returns(w) /\ wk'[w].verdict # None /\ wk'[w].calls = 1)
          => LET v == wk'[w].verdict[1]
                 t == TaskOf(w)
             IN /\ t \in DOMAIN rows
                   => /\ t \in DOMAIN rows'
                      /\ rows'[t].status = "completed"
                      /\ rows'[t].is_violation = Some(~v.is_valid)
                      /\ rows'[t].probability = Some(v.probability)
                /\ get_by_item(redis', ItemOf(w))
                     = Some([is_valid |-> v.is_valid, probability |-> v.probability])
                /\ get_moderation(redis', t)
                     = Some(PyDict([task_id |-> t, status |-> "completed",
                                    is_violation |-> Some(~v.is_valid),
                                    probability |-> Some(v.probability)]))
                /\ dlq' = dlq
                /\ wk'[w].sent = 0]_vars

C6_Witness ==
    \E w \in Workers :
        /\ wk[w].pc = "done" /\ wk[w].calls = 1 /\ wk[w].sent = 0
        /\ wk[w].verdict = Some([is_valid |-> TRUE, probability |-> 90])
        /\ TaskOf(w) \in DOMAIN rows
        /\ rows[TaskOf(w)].status = "completed"
        /\ rows[TaskOf(w)].is_violation = Some(FALSE)
        /\ rows[TaskOf(w)].probability = Some(90)
        /\ _item_predict_key(ItemOf(w)) \in DOMAIN redis
        /\ _moderation_key(TaskOf(w)) \in DOMAIN redis
        /\ dlq = <<>>

\* C7: /async_predict for an item id with no ad answers 404 and leaves
\* the moderation_results table, the id sequence, the pending publishes and
\* the moderation topic unchanged.
C7_EnqueueUnknownListing ==
    [][\A item_id \in ItemIds :
          (get_ad_by_id(ads, item_id) = None /\ async_predict(item_id))
          => /\ resp' = Response("async_predict", item_id, 404, None)
             /\ UNCHANGED <<rows, next_id, inflight, topic>>]_vars

C7_Witness ==
    \E item_id \in ItemIds :
        /\ item_id \notin DOMAIN ads
        /\ resp = Response("async_predict", item_id, 404, None)
        /\ topic = <<>>

\* C8 (as claimed): every message appended to the moderation topic carries
\* a task id whose row had been created before the publish, and every
\* message a worker receives carries a task id that resolves to a row.
C8_ConsumedTaskResolves ==
    [][/\ \A i \in (Len(topic) + 1)..Len(topic') : topic'[i].task_id \in Created
       /\ \A w \in Workers : Receives(w) => wk'[w].msg.task_id \in DOMAIN rows']_vars

\* C8 (amended): every message appended to the moderation topic carries a
\* task id whose row had been created before the publish, so a worker
\* never receives a task id that was not created; the row may have been
\* deleted since (closure or deletion of its listing).
C8_PublishedAfterCreated ==
    [][/\ \A i \in (Len(topic) + 1)..Len(topic') : topic'[i].task_id \in Created
       /\ \A w \in Workers : Receives(w) => wk'[w].msg.task_id \in Created]_vars

C8_Witness ==
    \E w \in Workers :
        /\ wk[w].pc = "run"
        /\ TaskOf(w) \in Created
        /\ TaskOf(w) \notin DOMAIN rows

\* the row-creating half of a successful /async_predict: exactly one row
\* is added, pending, for the listing, and nothing is published yet
CreatesOnePendingRow(item_id) ==
    \E t \in TaskIds :
        /\ t \notin DOMAIN rows
        /\ DOMAIN rows' = DOMAIN rows \cup {t}
        /\ \A u \in DOMAIN rows : rows'[u] = rows[u]
        /\ rows'[t].status = "pending"
        /\ rows'[t].item_id = item_id
        /\ inflight' \ inflight = {[task_id |-> t, item_id |-> item_id]}
        /\ topic' = topic
\* the publishing half: exactly one message is appended, and the response
\* carries its task id
PublishesOne(m) ==
    /\ topic' = Append(topic, m)
    /\ rows' = rows
    /\ m.task_id \in Created
    /\ m.item_id \in ItemIds
    /\ resp' = Response("async_predict", m.item_id, 200,
                        Some([task_id |-> m.task_id, status |-> "pending"]))

\* C9 (as claimed): a successful /async_predict creates exactly one pending
\* row and publishes exactly one message, which carries the row's id, the
\* listing id and a retry_count field equal to 0.
C9_MessageCarriesRetryCountZero ==
    [][/\ \A item_id \in ItemIds :
             (get_ad_by_id(ads, item_id) # None /\ async_predict(item_id))
             => CreatesOnePendingRow(item_id)
       /\ \A m \in inflight :
             async_predict_publish(m, TRUE)
             => /\ PublishesOne(m)
                /\ "retry_count" \in DOMAIN m
                /\ m.retry_count = 0]_vars

\* C9 (amended): a successful /async_predict creates exactly one pending
\* row and publishes exactly one message, which carries the row's id and
\* the listing id and has no retry_count field (the worker reads the
\* missing field as 0).
C9_MessageWithoutRetryCount ==
    [][/\ \A item_id \in ItemIds :
             (get_ad_by_id(ads, item_id) # None /\ async_predict(item_id))
             => CreatesOnePendingRow(item_id)
       /\ \A m \in inflight :
             async_predict_publish(m, TRUE)
             => /\ PublishesOne(m)
                /\ DOMAIN m = {"task_id", "item_id"}
                /\ get_retry_count(m) = 0]_vars

C9_Witness ==
    /\ resp.op = "async_predict" /\ resp.code = 200
    /\ Len(topic) = 1
    /\ topic[1] = [task_id |-> resp.body[1].task_id, item_id |-> resp.id]
    /\ topic[1].task_id \in DOMAIN rows
    /\ rows[topic[1].task_id].status = "pending"
    /\ rows[topic[1].task_id].item_id = resp.id

\* C10: no entry under moderation:result:{task_id} has status pending;
\* the per-task cache holds only completed or failed records.
C10_NoPendingInTaskCache ==
    \A t \in TaskIds :
        _moderation_key(t) \in DOMAIN redis
            => ModerationResultResponse(get_moderation(redis, t)[1]).status \in Terminal

\* a pending row was read on a cache miss and nothing was cached
C10_Witness ==
    /\ resp.op = "moderation_result" /\ resp.code = 200
    /\ resp.body[1].status = "pending"
    /\ _moderation_key(resp.id) \notin DOMAIN redis

\* the keys of the per-task cache, and what a closure of item_id with the
\* cache reachable must leave of the cache
ModerationKeys(ids) == {_moderation_key(t) : t \in ids}
IsOpen(item_id) == item_id \in DOMAIN ads /\ ~ads[item_id].is_closed

C12_CloseMissingOrClosed ==
    [][\A L \in ItemIds, up \in BOOLEAN :
          (~IsOpen(L) /\ close_ad_handler(L, up))
          => /\ resp' = Response("close", L, 404, None)
             /\ ads' = ads
             /\ rows' = rows
             /\ redis' = redis]_vars

\* a second close of a closed listing was refused while a task row and
\* cache entries of that listing existed
C12_Witness ==
    \E L \in ItemIds :
        /\ resp = Response("close", L, 404, None)
        /\ L \in DOMAIN ads /\ ads[L].is_closed
        /\ ids_of_item(rows, L) # {}
        /\ redis_exists(redis, _item_predict_key(L))

\* what a lookup answers from the row of task t
RowBody(t) == [task_id |-> t, status |-> rows[t].status,
               is_violation |-> rows[t].is_violation,
               probability |-> rows[t].probability]

\* C13: when moderation:result:t holds an entry (and Redis answers), the
\* lookup answers 200 with exactly that entry, whatever the table holds for
\* t, and changes neither the cache nor the table.
C13_LookupCacheFirst ==
    [][\A t \in TaskIds :
          (get_moderation(redis, t) # None /\ moderation_result(t, TRUE))
          => /\ resp' = Response("moderation_result", t, 200,
                                 Some(ModerationResultResponse(get_moderation(redis, t)[1])))
             /\ redis' = redis
             /\ rows' = rows]_vars

\* a lookup was answered from the cache although the row no longer exists
C13_Witness ==
    /\ resp.op = "moderation_result" /\ resp.code = 200
    /\ resp.id \notin DOMAIN rows
    /\ get_moderation(redis, resp.id) = Some(PyDict(resp.body[1]))

\* C14: on a miss of moderation:result:t the lookup answers 404 and leaves
\* the cache unchanged when the table has no row t; otherwise it answers
\* 200 with the row's status, is_violation and probability, and it has
\* written that answer under moderation:result:t exactly when the status
\* is completed or failed; no other key changes.
C14_LookupOnMiss ==
    [][\A t \in TaskIds :
          (get_moderation(redis, t) = None /\ moderation_result(t, TRUE))
          => IF t \notin DOMAIN rows
             THEN /\ resp' = Response("moderation_result", t, 404, None)
                  /\ redis' = redis
             ELSE /\ resp' = Response("moderation_result", t, 200, Some(RowBody(t)))
                  /\ redis_exists(redis', _moderation_key(t))
                        = (rows[t].status \in Terminal)
                  /\ rows[t].status \in Terminal
                        => get_moderation(redis', t) = Some(PyDict(RowBody(t)))
                  /\ DOMAIN redis' \ {_moderation_key(t)} = DOMAIN redis
                  /\ \A k \in DOMAIN redis : redis'[k] = redis[k]]_vars

\* a failed row, which the worker never caches, was read on a miss and the
\* lookup has cached it
C14_Witness ==
    /\ resp.op = "moderation_result" /\ resp.code = 200
    /\ resp.id \in DOMAIN rows
    /\ rows[resp.id].status = "failed"
    /\ resp.body = Some(RowBody(resp.id))
    /\ get_moderation(redis, resp.id) = Some(PyDict(RowBody(resp.id)))

\* what a lookup of task t answers from the table alone
StoreAnswer(t) ==
    IF t \in DOMAIN rows
    THEN Response("moderation_result", t, 200, Some(RowBody(t)))
    ELSE Response("moderation_result", t, 404, None)

\* C15: a request served while Redis is unreachable is answered as it would
\* be with an empty cache: the lookup answers from the table, and the
\* closure of an open listing answers 200.
C15_CacheFailureNotSurfaced ==
    [][/\ \A t \in TaskIds :
             moderation_result(t, FALSE) => resp' = StoreAnswer(t)
       /\ \A L \in ItemIds :
             (IsOpen(L) /\ close_ad_handler(L, FALSE))
                 => resp' = Response("close", L, 200, None)]_vars

\* C16: get of a key whose stored payload cannot be deserialized returns
\* None and does not raise.
C16_UndecodableIsMiss ==
    [][\A n \in ClientKeys :
          (/\ redis_exists(redis, ClientKey(n))
           /\ json_loads_raises(redis[ClientKey(n)].payload)
           /\ client_get(n))
          => resp' = Returned("get", n, None)]_vars

\* the part of the round trip that does not depend on the value: a delete
\* returns whether or not the key exists and removes it, and a get or an
\* exists that follows a delete of the same key finds nothing
DeleteThenAbsent ==
    \A n \in ClientKeys :
        /\ client_delete(n)
           => /\ resp' = Returned("delete", n, None)
              /\ ~redis_exists(redis', ClientKey(n))
              /\ \A k \in DOMAIN redis \ {ClientKey(n)} :
                     k \in DOMAIN redis' /\ redis'[k] = redis[k]
        /\ (resp = Returned("delete", n, None) /\ client_get(n))
           => resp' = Returned("get", n, None)
        /\ (resp = Returned("delete", n, None) /\ client_exists(n))
           => resp' = Returned("exists", n, Some(<<"bool", FALSE>>))

C18_SimplePredict ==
    [][\A L \in ItemIds, out \in EngineOutcomes :
          simple_predict(L, TRUE, out)
          => IF redis_exists(redis, _item_predict_key(L))
             THEN /\ resp' = Response("simple_predict", L, 200, get_by_item(redis, L))
                  /\ redis' = redis
             ELSE IF L \notin DOMAIN ads
             THEN /\ resp' = Response("simple_predict", L, 404, None)
                  /\ redis' = redis
             ELSE IF out.raised
             THEN /\ resp' = Response("simple_predict", L, 500, None)
                  /\ redis' = redis
             ELSE LET verdict == [is_valid |-> out.proba >= 50,
                                  probability |-> out.proba]
                  IN /\ resp' = Response("simple_predict", L, 200, Some(verdict))
                     /\ get_by_item(redis', L) = Some(verdict)
                     /\ redis'[_item_predict_key(L)].ex = PREDICT_BY_ITEM_TTL
                     /\ DOMAIN redis' = DOMAIN redis \cup {_item_predict_key(L)}
                     /\ \A k \in DOMAIN redis : redis'[k] = redis[k]]_vars

\* a verdict was scored and stored for a listing, the listing was removed,
\* and /simple_predict still answers with the stored verdict
C18_Witness ==
    \E L \in ItemIds :
        /\ resp.op = "simple_predict" /\ resp.id = L /\ resp.code = 200
        /\ L \notin DOMAIN ads
        /\ get_by_item(redis, L) = resp.body

\* the per-feature key of a request, and the four fields it is built from
KeyOf(r) ==
    _features_predict_key(r.is_verified_seller, r.images_qty,
                          Len(r.description), r.category)
SameKeyFields(a, b) ==
    /\ a.is_verified_seller = b.is_verified_seller
    /\ a.images_qty = b.images_qty
    /\ Len(a.description) = Len(b.description)
    /\ a.category = b.category
FeatureKeyInjective ==
    \A a, b \in FeatureVectors : (KeyOf(a) = KeyOf(b)) <=> SameKeyFields(a, b)

\* C19: two feature vectors have the same predict:features key exactly when
\* they agree on the verified flag, the image count, the description length
\* and the category, so /predict answers a request from the entry stored
\* for any request that differs from it only in the description's content.
C19_FeatureKey ==
    [][/\ FeatureKeyInjective
       /\ \A m, n \in DOMAIN Requests, out \in EngineOutcomes :
             (/\ SameKeyFields(Requests[m], Requests[n])
              /\ redis_exists(redis, KeyOf(Requests[m]))
              /\ predict_handler(n, TRUE, out))
             => /\ resp' = Response("predict", n, 200,
                                    Some(CachedPrediction(
                                             redis_get(redis, KeyOf(Requests[m]))[1])))
                /\ redis' = redis]_vars

\* the request with description "b" was answered while the only entry of
\* its key is the one that also serves description "a", and the request
\* with the empty description has an entry of its own
C19_Witness ==
    /\ resp.op = "predict" /\ resp.id = 2 /\ resp.code = 200
    /\ KeyOf(Requests[1]) = KeyOf(Requests[2])
    /\ redis_get(redis, KeyOf(Requests[1])) = Some(PyDict(resp.body[1]))
    /\ redis_exists(redis, KeyOf(Requests[3]))
    /\ KeyOf(Requests[3]) # KeyOf(Requests[1])

\* C20: a worker that is sleeping in the backoff delay, or re-entering
\* process_message for a retry, holds no open PostgreSQL connection, and a
\* worker never holds more than one.
C20_NoConnectionAcrossBackoff ==
    \A w \in Workers :
        /\ wk[w].pc = "sleep" => wk[w].conns = 0
        /\ (wk[w].pc = "run" /\ wk[w].calls > 0) => wk[w].conns = 0
        /\ wk[w].conns <= 1

\* C21: once every worker instance that processed the message of task t has
\* finished, the entry of moderation:result:t (if one was written) carries
\* the status, is_violation and probability of the row of t, which holds
\* the last write to the table.
C21_RedeliveryAgreement ==
    \A t \in DOMAIN rows :
        (/\ \A w \in Instances : wk[w].pc = "done" /\ TaskOf(w) = t
         /\ get_moderation(redis, t) # None)
        => ModerationResultResponse(get_moderation(redis, t)[1]) = RowBody(t)

\* what the worker does when the listing is absent at the fetch of retry
\* attempt k, apart from the table: k + 1 invocations and k scoring calls
\* in all, each of which raised, and one dead-letter message, with
\* retry_count k + 1 and the not-found error
AbsentAtRetry(w) ==
    /\ Returns(w)
    /\ get_ad_with_seller(ads, ItemOf(w)) = None
    /\ get_retry_count(wk[w].msg) \in {1, 2}
RetryPermanentFailureEffects(w) ==
    LET k == get_retry_count(wk[w].msg)
    IN /\ wk'[w].calls = k + 1
       /\ wk'[w].scored = k
       /\ wk'[w].raised = k
       /\ wk'[w].sent = 1
       /\ DlqAppended
       /\ NewDlq.retry_count = k + 1
       /\ NewDlq.error = AdNotFoundMsg(ItemOf(w))
       /\ NewDlq.original_message.task_id = TaskOf(w)

C23_BackoffDelays ==
    \A w \in Workers :
        /\ \A n \in 1..Len(wk[w].slept) : wk[w].slept[n] = RETRY_DELAY_SECONDS * (2 ^ (n - 1))
        /\ Len(wk[w].slept) <= MAX_RETRIES - 1
        /\ wk[w].pc \in {"run", "sleep"} => Len(wk[w].slept) = wk[w].calls
        /\ wk[w].pc \in {"set_by_item", "set_moderation", "done"} => Len(wk[w].slept) = wk[w].calls - 1

C23_Witness ==
    \E w \in Workers :
        /\ wk[w].pc = "done" /\ wk[w].raised = 3 /\ wk[w].sent = 1
        /\ wk[w].slept = <<RETRY_DELAY_SECONDS, 2 * RETRY_DELAY_SECONDS>>

\* the activation of w has returned with a verdict, none of its calls
\* having raised, and the listing is still there
CompletedBy(w) ==
    /\ wk[w].pc = "done" /\ wk[w].verdict # None /\ wk[w].fault = "none"
    /\ get_ad_with_seller(ads, ItemOf(w)) # None

\* C24: when predict_validity raises on the attempts before attempt k
\* (k <= 2) and returns a verdict on attempt k, the listing being present
\* throughout, the activation ends with the task's row completed with that
\* verdict, with the per-listing and the per-task cache entry each written
\* once and holding that verdict, without any failed-update and without a
\* dead-letter message.
C24_RetryThenSuccess ==
    \A w \in Workers :
        CompletedBy(w)
        => LET v == wk[w].verdict[1]
               t == TaskOf(w)
           IN /\ wk[w].scored = wk[w].raised + 1
              /\ wk[w].calls = wk[w].scored
              /\ wk[w].calls <= MAX_RETRIES
              /\ t \in DOMAIN rows
              /\ rows[t].status = "completed"
              /\ rows[t].is_violation = Some(~v.is_valid)
              /\ rows[t].probability = Some(v.probability)
              /\ wk[w].completed_marks = 1
              /\ wk[w].item_sets = 1
              /\ wk[w].task_sets = 1
              /\ get_by_item(redis, ItemOf(w)) = Some([is_valid |-> v.is_valid, probability |-> v.probability])
              /\ get_moderation(redis, t) # None
              /\ ModerationResultResponse(get_moderation(redis, t)[1]) = RowBody(t)
              /\ wk[w].failed_marks = 0
              /\ wk[w].sent = 0

C24_Witness ==
    \E w \in Workers :
        /\ CompletedBy(w)
        /\ wk[w].raised = 2 /\ wk[w].calls = 3
        /\ rows[TaskOf(w)].status = "completed"
        /\ redis_exists(redis, _moderation_key(TaskOf(w)))

\* update_moderation_completed is applied to the row of t while the last
\* repository call was an application with the same arguments
Reapplied(t) ==
    /\ t \in DOMAIN rows
    /\ resp.op = "update_moderation_completed" /\ resp.id = t
    /\ resp'.op = "update_moderation_completed" /\ resp'.id = t
    /\ resp'.body[1].is_violation = resp.body[1].is_violation
    /\ resp'.body[1].probability = resp.body[1].probability
    /\ now' = now

\* C25 (as claimed): applying update_moderation_completed to a task a
\* second time with the same arguments leaves its row as the first
\* application left it.
C25_CompletionIdempotent ==
    [][\A t \in TaskIds : Reapplied(t) => rows'[t] = rows[t]]_vars

\* C25 (amended): applying update_moderation_completed to a task a second
\* time with the same arguments leaves its row as the first application
\* left it, except for processed_at, which becomes the time of the second
\* application.
C25_CompletionIdempotentButTime ==
    [][\A t \in TaskIds :
          Reapplied(t) => rows'[t] = [rows[t] EXCEPT !.processed_at = Some(now)]]_vars

\* the row of a task completed twice with the same arguments, the second
\* time later than the first
C25_Witness ==
    \E t \in DOMAIN rows :
        /\ resp = Returned("update_moderation_completed", t, Completion(TRUE, 90))
        /\ rows[t].status = "completed"
        /\ rows[t].is_violation = Some(TRUE)
        /\ rows[t].processed_at = Some(now)
        /\ now > 0

\* C26: when set_by_item or set_moderation raises after
\* update_moderation_completed has returned, the task's row stays
\* completed, no failed-update is made and no dead-letter message is
\* published, and the other of the two cache writes is still made.
C26_CacheWritesBestEffort ==
    \A w \in Workers :
        (wk[w].pc = "done" /\ wk[w].fault \in {"set_by_item", "set_moderation"})
        => /\ wk[w].completed_marks = 1
           /\ wk[w].failed_marks = 0
           /\ wk[w].sent = 0
           /\ TaskOf(w) \in DOMAIN rows => rows[TaskOf(w)].status = "completed"
           /\ wk[w].item_sets + wk[w].task_sets = 1

\* the activation of w ends in failure in this step: the listing was not
\* found, or the last attempt allowed failed (the failed-update and the
\* dead-letter publish returning or not)
EndsInFailure(w) ==
    /\ wk[w].pc = "run" /\ wk'[w].pc = "done"
    /\ wk'[w].verdict = None

\* C27: an activation that ends in failure has written neither the
\* per-listing nor the per-task cache entry, and the step that ends it
\* leaves Redis as it was.
C27_FailureLeavesCache ==
    [][\A w \in Workers :
          EndsInFailure(w)
          => /\ redis' = redis
             /\ wk'[w].item_sets = 0
             /\ wk'[w].task_sets = 0]_vars

C27_Witness ==
    \E w \in Workers :
        /\ wk[w].pc = "done" /\ wk[w].raised = 3 /\ wk[w].sent = 1 /\ wk[w].failed_marks = 1
        /\ TaskOf(w) \in DOMAIN rows
        /\ rows[TaskOf(w)].status = "failed"
        /\ ~redis_exists(redis, _moderation_key(TaskOf(w)))
        /\ ~redis_exists(redis, _item_predict_key(ItemOf(w)))

\* C28: the original_message of every dead-letter message published is a
\* message of the moderation topic as it was consumed: same task_id, same
\* item_id and same retry count.
C28_OriginalMessageAsConsumed ==
    [][DlqAppended
       => \E i \in 1..Len(topic) :
             /\ topic[i].task_id = NewDlq.original_message.task_id
             /\ topic[i].item_id = NewDlq.original_message.item_id
             /\ get_retry_count(topic[i]) = get_retry_count(NewDlq.original_message)]_vars

\* w starts to process a message in this step: its activation becomes a
\* fresh one, with no invocation of process_message made yet
StartsMessage(w) ==
    /\ wk'[w] # wk[w]
    /\ wk'[w].pc = "run" /\ wk'[w].calls = 0

\* C29: a worker instance starts to process a message only when it is not
\* inside process_message: the processing of the message before has
\* returned (or raised into main), with all its retries, its backoff sleeps
\* and its cache writes, whatever the other instance is doing.
C29_NotPipelined ==
    [][\A w \in Instances :
          StartsMessage(w) => wk[w].pc \in {"idle", "done"}]_vars

\* an instance has taken a message after a message was processed to its
\* end, while the other instance is asleep inside process_message
C29_Witness ==
    \E w \in Instances, u \in Instances :
        /\ w # u
        /\ wk[w].pc = "run" /\ wk[w].calls = 0
        /\ wk[u].pc = "sleep" /\ wk[u].calls = 2
        /\ \E t \in DOMAIN rows : rows[t].status = "completed"

\* the calls whose exception C30 is about: the terminal writes to the table
\* and the dead-letter publish
TerminalFaults == {"update_moderation_completed", "update_moderation_failed", "send_to_dlq"}

\* C30: when update_moderation_completed, update_moderation_failed or
\* send_to_dlq raises, the activation ends there, with the exception logged
\* by main: the step publishes nothing and writes nothing more (the
\* failed-update that returned before a raising publish stays), and from
\* then on the worker does nothing for that message; its next step is the
\* start of a message taken from the topic.
C30_TerminalRaiseEndsMessage ==
    [][\A w \in Workers :
          /\ (wk[w].pc = "run" /\ wk'[w].fault \in TerminalFaults)
             => /\ wk'[w].pc = "done"
                /\ wk'[w].sent = 0
                /\ dlq' = dlq
                /\ redis' = redis
                /\ wk'[w].completed_marks = 0
                /\ wk'[w].failed_marks = IF wk'[w].fault = "send_to_dlq" THEN 1 ELSE 0
                /\ wk'[w].fault # "send_to_dlq" => rows' = rows
          /\ wk[w].fault \in TerminalFaults
             => wk'[w] = wk[w] \/ StartsMessage(w)]_vars

\* the worker has taken a message again after a dead-letter publish raised:
\* a row is failed and nothing was ever published to the dead-letter topic
C30_Witness ==
    \E w \in Workers :
        /\ wk[w].pc = "run" /\ wk[w].calls = 0
        /\ dlq = <<>>
        /\ \E t \in DOMAIN rows : rows[t].status = "failed"

\* C31: when the consumer, the producer and the Redis client of a worker
\* have been stopped, the worker holds no unfinished message: it had
\* consumed none, or the processing of the last one had ended, with both
\* cache entries written or with the dead-letter message published.
C31_ShutdownDrains ==
    \A w \in Workers :
        wk[w].pc = "stopped"
        => \/ wk[w].msg = IdleMsg
           \/ wk[w].task_sets = 1
           \/ wk[w].sent = 1

(* ------------- direct calls of storages/predict_cache.py -------------- *)
\* the ids the listing and task keyspaces are addressed with, and the
\* sample requests the feature keyspace is addressed with
CacheIds == {1, 11}
FeatureIds == {1, 4}
ElapseStep == 600
\* the last call and the number of ElapseStep periods gone by since
Called(op, id) == [op |-> op, id |-> id, code |-> 0, body |-> None, conn |-> "closed"]

cache_set_by_item(item_id, proba) ==
    /\ redis' = set_by_item(redis, item_id, proba >= 50, proba)
    /\ resp' = Called("set_by_item", item_id)
    /\ UNCHANGED <<ads, rows, next_id, topic, dlq, inflight, wk, now>>

cache_invalidate_by_item(item_id) ==
    /\ redis' = invalidate_by_item(redis, item_id)
    /\ resp' = Called("invalidate_by_item", item_id)
    /\ UNCHANGED <<ads, rows, next_id, topic, dlq, inflight, wk, now>>

cache_set_by_features(n, proba) ==
    /\ redis' = set_by_features(redis, proba >= 50, proba, Requests[n].is_verified_seller, Requests[n].images_qty, Requests[n].description, Requests[n].category)
    /\ resp' = Called("set_by_features", n)
    /\ UNCHANGED <<ads, rows, next_id, topic, dlq, inflight, wk, now>>

cache_set_moderation(task_id, status, proba) ==
    /\ redis' = set_moderation(redis, task_id, status, Some(proba < 50), Some(proba))
    /\ resp' = Called("set_moderation", task_id)
    /\ UNCHANGED <<ads, rows, next_id, topic, dlq, inflight, wk, now>>

cache_invalidate_moderation(task_id) ==
    /\ redis' = invalidate_moderation(redis, task_id)
    /\ resp' = Called("invalidate_moderation", task_id)
    /\ UNCHANGED <<ads, rows, next_id, topic, dlq, inflight, wk, now>>

\* Redis after d seconds: a key set with EX is gone once its time to live
\* has run out
aged(s, d) == [k \in {x \in DOMAIN s : s[x].ex > d} |-> [s[k] EXCEPT !.ex = @ - d]]

\* ElapseStep seconds go by without a call
Elapse ==
    /\ resp.code < MaxElapse
    /\ redis' = aged(redis, ElapseStep)
    /\ resp' = [resp EXCEPT !.code = @ + 1]
    /\ UNCHANGED <<ads, rows, next_id, topic, dlq, inflight, wk, now>>

CacheNext ==
    \/ \E item_id \in CacheIds, proba \in Probs : cache_set_by_item(item_id, proba)
    \/ \E item_id \in CacheIds : cache_invalidate_by_item(item_id)
    \/ \E n \in FeatureIds, proba \in Probs : cache_set_by_features(n, proba)
    \/ \E task_id \in CacheIds, status \in {"completed", "pending"}, proba \in Probs : cache_set_moderation(task_id, status, proba)
    \/ \E task_id \in CacheIds : cache_invalidate_moderation(task_id)

CacheSpec == Init /\ [][CacheNext]_vars

\* one entry of each family, written, invalidated and left to age
TtlNext ==
    \/ \E proba \in Probs : cache_set_by_item(1, proba)
    \/ cache_invalidate_by_item(1)
    \/ \E proba \in Probs : cache_set_by_features(1, proba)
    \/ \E proba \in Probs : cache_set_moderation(1, "completed", proba)
    \/ cache_invalidate_moderation(1)
    \/ Elapse

TtlSpec == Init /\ [][TtlNext]_vars

\* the key families, the key of an id in its family, and what Redis holds
\* under a key
Families == {"item", "features", "moderation"}
FamilyIds(f) == IF f = "features" THEN FeatureIds ELSE CacheIds
FamilyKey(f, id) ==
    IF f = "item" THEN _item_predict_key(id)
    ELSE IF f = "features" THEN KeyOf(Requests[id])
    ELSE _moderation_key(id)
FamilyOf(op) ==
    IF op \in {"set_by_item", "invalidate_by_item"} THEN "item"
    ELSE IF op = "set_by_features" THEN "features"
    ELSE "moderation"
Entry(s, key) == IF key \in DOMAIN s THEN Some(s[key]) ELSE None
CacheCalls == {"set_by_item", "invalidate_by_item", "set_by_features", "set_moderation", "invalidate_moderation"}

\* C32: a set or an invalidate of the entry of id x in one key family
\* leaves what Redis holds for every id of the other two families, and for
\* every other id of the same family, as it was.
C32_FamiliesIndependent ==
    [][resp'.op \in CacheCalls
       => \A f \in Families : \A id \in FamilyIds(f) :
             (f # FamilyOf(resp'.op) \/ id # resp'.id)
             => Entry(redis', FamilyKey(f, id)) = Entry(redis, FamilyKey(f, id))]_vars

\* entries of the three families for the same id, and for two ids of each
\* family, stand side by side
C32_Witness ==
    /\ \A f \in Families : \A id \in FamilyIds(f) : redis_exists(redis, FamilyKey(f, id))
    /\ resp.op = "set_moderation"
    /\ Cardinality(DOMAIN redis) = 6

\* the time to live each family is written with
FamilyTtl(f) ==
    IF f = "item" THEN PREDICT_BY_ITEM_TTL
    ELSE IF f = "features" THEN PREDICT_BY_FEATURES_TTL
    ELSE MODERATION_RESULT_TTL
\* what the storage reads for an id of a family
FamilyGet(s, f, id) ==
    IF f = "item" THEN get_by_item(s, id)
    ELSE IF f = "features" THEN get_by_features(s, Requests[id].is_verified_seller, Requests[id].images_qty, Requests[id].description, Requests[id].category)
    ELSE get_moderation(s, id)
\* seconds gone by since the last call
SinceCall == resp.code * ElapseStep

\* C33: an entry of the per-listing family is written with a time to live
\* of 600 seconds, of the per-feature family 3600 seconds and of the
\* per-task family 1800 seconds: after a set, and for as long as less than
\* that time has gone by without a call, the entry is there with the rest
\* of its time to live, and from then on the storage reads nothing for it.
C33_FamilyTtl ==
    /\ \A f \in Families : \A id \in FamilyIds(f) :
          redis_exists(redis, FamilyKey(f, id))
          => /\ redis[FamilyKey(f, id)].ex > 0
             /\ redis[FamilyKey(f, id)].ex <= FamilyTtl(f)
    /\ resp.op \in {"set_by_item", "set_by_features", "set_moderation"}
       => LET f == FamilyOf(resp.op)
              key == FamilyKey(f, resp.id)
          IN IF SinceCall < FamilyTtl(f)
             THEN /\ redis_exists(redis, key)
                  /\ redis[key].ex = FamilyTtl(f) - SinceCall
                  /\ FamilyGet(redis, f, resp.id) # None
             ELSE /\ ~redis_exists(redis, key)
                  /\ FamilyGet(redis, f, resp.id) = None

\* the entry of a per-task key has run out while a per-feature entry
\* written before it is still there
C33_Witness ==
    /\ resp.op = "set_moderation" /\ SinceCall = MODERATION_RESULT_TTL
    /\ get_moderation(redis, resp.id) = None
    /\ redis_exists(redis, FamilyKey("features", 1))

\* the retry count the message of w's activation was consumed with: every
\* sleep that has ended has added one to the count in the message
ConsumedRetryCount(w) ==
    get_retry_count(wk[w].msg) - (IF wk[w].pc = "sleep" THEN Len(wk[w].slept) - 1 ELSE Len(wk[w].slept))

\* C34: the processing of a message consumed with retry count r (absent
\* counts as 0, r <= 2) makes at most 3 - r scoring attempts and returns,
\* and when it has returned the task's row, if it still exists, is
\* completed or failed.
C34_Terminates ==
    /\ [](\A w \in Workers :
            /\ wk[w].scored + ConsumedRetryCount(w) <= MAX_RETRIES
            /\ (wk[w].pc = "done" /\ TaskOf(w) \in DOMAIN rows)
               => rows[TaskOf(w)].status \in Terminal)
    /\ \A w \in Workers : (wk[w].pc \in {"run", "sleep"}) ~> (wk[w].pc = "done")

\* a message consumed with retry count 1 has been scored twice, both
\* attempts failing, and its task is failed
C34_Witness ==
    \E w \in Workers :
        /\ wk[w].pc = "done" /\ ConsumedRetryCount(w) = 1
        /\ wk[w].scored = 2 /\ wk[w].raised = 2
        /\ TaskOf(w) \in DOMAIN rows
        /\ rows[TaskOf(w)].status = "failed"

\* C35: whenever the worker is not inside process_message and
\* moderation:result:t holds an entry, the row of t has the status,
\* is_violation and probability of that entry.
C35_CacheCoherent ==
    \A t \in DOMAIN rows :
        (/\ \A w \in Workers : wk[w].pc \in {"idle", "done"}
         /\ get_moderation(redis, t) # None)
        => ModerationResultResponse(get_moderation(redis, t)[1]) = RowBody(t)

\* C36: once the worker is not inside process_message, Redis holds no
\* moderation:result entry for a task whose row the closure of its listing
\* has deleted, and the lookup of such a task answers 404.
C36_NoEntryForDeletedTask ==
    (\A w \in Workers : wk[w].pc \in {"idle", "done"})
    => \A t \in Created \ DOMAIN rows :
          /\ get_moderation(redis, t) = None
          /\ (resp.op = "moderation_result" /\ resp.id = t) => resp.code = 404

\* C37: every connection opened by get_pg_connection is closed when its
\* scope has been left: a request that has been answered, whatever the
\* answer, has left no connection open, and a worker that is not inside
\* process_message holds none.
C37_ConnectionsClosed ==
    /\ resp.conn = "closed"
    /\ \A w \in Workers : wk[w].pc \in {"idle", "done"} => wk[w].conns = 0

\* C38: enqueue leaves no orphan: every pending row either has its
\* task-intake message in the topic or belongs to an /async_predict that
\* has not yet reached its publish, and an /async_predict answered with a
\* failure has left no row behind.
C38_NoOrphanRow ==
    \A t \in DOMAIN rows :
        rows[t].status = "pending"
        => \/ \E i \in 1..Len(topic) : topic[i].task_id = t
           \/ \E m \in inflight : m.task_id = t

\* C39: once a listing has been closed, no row of moderation_results refers
\* to it: the closure has deleted its rows and no later /async_predict or
\* worker run creates or leaves one.
C39_NoRowForClosedListing ==
    \A t \in DOMAIN rows :
        rows[t].item_id \in DOMAIN ads => ~ads[rows[t].item_id].is_closed

====
